---- MODULE Spec2Model ----
(***************************************************************************)
(* Loan-Risk-Evaluator: the risk evaluation pipeline.                      *)
(*                                                                         *)
(* The workflow is the Step Functions state machine                        *)
(* server/stepfunctions/loanEvaluator-sf-riskEvaluation.json, read with    *)
(* the Amazon States Language rules for Task / Retry / Catch / Fail.       *)
(* The Dispatcher Lambda (SqsToStepDispatcher), its DynamoDB idempotency   *)
(* ledger and the bodies of the three stage Lambdas are not part of the    *)
(* sources; they are modelled from the specification and the README.       *)
(***************************************************************************)
EXTENDS Integers, Sequences, FiniteSets, TLC

\* ---------------------------------------------------------------- bounds
\* Redeliveries of one message by the inbound queue (least-once delivery).
MaxDeliveries == 2
\* Ledger TTL expiries that may happen during one run.
MaxExpiries == 1

\* ------------------------------------------------------- the ASL document
CLEAN == "CleanAndFeatureEngineer"
SCORE == "CallScoringService"
PERSIST == "PersistScoredApplication"
DLQ == "SendToDLQ"
FAIL == "ProcessingFailed"

StartAt == CLEAN

Stages == {CLEAN, SCORE, PERSIST}

\* The order in which the document chains the three Task states.
StageOrder == <<CLEAN, SCORE, PERSIST>>

\* Retry[0].ErrorEquals of each Task state.
RetryErrorEquals(T) ==
    CASE T = CLEAN ->
           {"Lambda.ServiceException", "Lambda.AWSLambdaException",
            "Lambda.SdkClientException", "Lambda.TooManyRequestsException",
            "DataValidationError"}
      [] T = SCORE ->
           {"Lambda.ServiceException", "Lambda.AWSLambdaException",
            "Lambda.SdkClientException", "Lambda.TooManyRequestsException",
            "ScoringServiceCallFailed"}
      [] T = PERSIST ->
           {"Lambda.ServiceException", "Lambda.AWSLambdaException",
            "Lambda.SdkClientException", "Lambda.TooManyRequestsException",
            "DatabaseConnectionError", "DatabaseWriteError"}
      [] OTHER -> {}

\* Retry[0].MaxAttempts of each Task state; SendToDLQ has no Retry block.
CleanMaxAttempts == 2
ScoreMaxAttempts == 3
PersistMaxAttempts == 3

RetryMaxAttempts(T) ==
    CASE T = CLEAN -> CleanMaxAttempts
      [] T = SCORE -> ScoreMaxAttempts
      [] T = PERSIST -> PersistMaxAttempts
      [] OTHER -> 0

\* Retry[0].IntervalSeconds of each Task state.
CleanIntervalSeconds == 3
ScoreIntervalSeconds == 5
PersistIntervalSeconds == 5

IntervalSeconds(T) ==
    CASE T = CLEAN -> CleanIntervalSeconds
      [] T = SCORE -> ScoreIntervalSeconds
      [] T = PERSIST -> PersistIntervalSeconds

\* Retry[0].BackoffRate of each Task state, as a fraction <<numerator,
\* denominator>>: 1.5 for CLEAN, 2 for SCORE and PERSIST.
BackoffRate(T) ==
    CASE T = CLEAN -> <<3, 2>>
      [] T = SCORE -> <<2, 1>>
      [] T = PERSIST -> <<2, 1>>

\* Retry[0].JitterStrategy of each Task state (NONE when absent).
JitterStrategy(T) ==
    CASE T = CLEAN -> "NONE"
      [] T = SCORE -> "FULL"
      [] T = PERSIST -> "FULL"

RECURSIVE Pow(_, _)
Pow(b, n) == IF n = 0 THEN 1 ELSE b * Pow(b, n - 1)

\* The interval multiplied by BackoffRate once per retry, the first retry
\* included.
RetryIntervalGrowsFromFirstRetry(T, n) ==
    (2 * IntervalSeconds(T) * Pow(BackoffRate(T)[1], n)) \div Pow(BackoffRate(T)[2], n)

\* The interval before the n-th retry (n >= 1) of a Task state, in half
\* seconds: IntervalSeconds before the first retry, multiplied by BackoffRate
\* for each further one.
RetryInterval(T, n) ==
    (2 * IntervalSeconds(T) * Pow(BackoffRate(T)[1], n - 1))
        \div Pow(BackoffRate(T)[2], n - 1)

\* The delays the n-th retry can be scheduled with: the interval itself, or
\* with JitterStrategy FULL any delay between 0 and the interval.
BackoffRange(T, n) ==
    IF JitterStrategy(T) = "FULL"
    THEN 0..RetryInterval(T, n)
    ELSE {RetryInterval(T, n)}

\* PersistScoredApplication's Catch routed straight to the Fail state.
CatchNextPersistSkipsDlq(T) == IF T \in {DLQ, PERSIST} THEN FAIL ELSE DLQ

\* SendToDLQ's Catch routed back to SendToDLQ.
CatchNextResendsDlq(T) == DLQ

\* CleanAndFeatureEngineer's Catch routed straight to the Fail state.
CatchNextCleanSkipsDlq(T) == IF T \in {DLQ, CLEAN} THEN FAIL ELSE DLQ

\* Catch[0]: ErrorEquals States.ALL, Next SendToDLQ (ProcessingFailed for
\* SendToDLQ itself), and the field ResultPath puts the error under.
CatchNext(T) == IF T = DLQ THEN FAIL ELSE DLQ
CatchResultPath(T) == IF T = DLQ THEN "sendToDlqErrorDetails" ELSE "errorInfo"

\* SendToDLQ's Next naming a state the definition does not have.
NextStateDlqLeadsNowhere(T) ==
    CASE T = CLEAN -> SCORE
      [] T = SCORE -> PERSIST
      [] T = PERSIST -> "End"
      [] T = DLQ -> "-"

\* End: true placed on CallScoringService.
NextStateEndsAfterScore(T) ==
    CASE T = CLEAN -> SCORE
      [] T = SCORE -> "End"
      [] T = PERSIST -> "End"
      [] T = DLQ -> FAIL

\* CleanAndFeatureEngineer chained to PersistScoredApplication: SCORE skipped.
NextStateSkipsScore(T) ==
    CASE T = CLEAN -> PERSIST
      [] T = SCORE -> PERSIST
      [] T = PERSIST -> "End"
      [] T = DLQ -> FAIL

\* Next / End of each Task state ("End" for End: true).
NextState(T) ==
    CASE T = CLEAN -> SCORE
      [] T = SCORE -> PERSIST
      [] T = PERSIST -> "End"
      [] T = DLQ -> FAIL

\* input.$ taken from the state data, in which the stages' output has
\* replaced the execution's input: only the application_id is left of it.
DlqMessageBodyFromStateData(x) ==
    [failedStage |-> "CleanAndFeatureEngineer",
     errorInfo |-> x.errorInfo,
     input |-> [application_id |-> x.input.application_id, naturalKey |-> "-"]]

\* SendToDLQ.Parameters.MessageBody.
DlqMessageBody(x) ==
    [failedStage |-> "CleanAndFeatureEngineer",
     errorInfo |-> x.errorInfo,
     input |-> x.input]

\* ------------------------------------------------------------ environment
Keys == {"A1"}

\* One delivery of a message: its natural key and the delivery number.
Deliveries == Keys \X (1..MaxDeliveries)

\* application_id values the Dispatcher can mint (one per admission).
AppIds == 1..Cardinality(Deliveries)

\* Errors a Task attempt can end with: Lambda service errors, the errors the
\* stage Lambdas raise, a timeout of the attempt, and an error no Retry
\* block lists.
ErrorNames ==
    {"Lambda.ServiceException", "DataValidationError", "ScoringServiceCallFailed",
     "DatabaseWriteError", "States.Timeout", "SchemaMismatchError"}

NoError == "none"

\* Errors of an attempt that say nothing about the Lambda invocation itself:
\* the orchestrator stopped waiting (States.Timeout) or lost the invocation's
\* response (Lambda.ServiceException). The invocation may still finish.
LostResponseErrors == {"States.Timeout", "Lambda.ServiceException"}

\* ------------------------------------------------------------------ state
VARIABLES
    ledger,     \* idempotency ledger: natural key -> [state, applicationId]
    disp,       \* Dispatcher's position on each delivery
    dispResult, \* what beginOrReject answered for each delivery
    dispApp,    \* the application_id a delivery was admitted with (0: none)
    nextId,     \* next application_id the Dispatcher mints
    expiries,   \* natural key -> number of times its ledger entry expired
    exec,       \* application_id -> the execution started for it
    remote,     \* application_id -> a timed-out PERSIST invocation still runs
    store,      \* scored_loan_applications: application_id -> number of rows
    dlq,        \* application-failure-dlq: the message bodies sent, in order
    invocations, \* application_id -> stage Lambda invocations of its execution
    writes,     \* application_id -> writes of its row applied to the store
    delay,      \* application_id -> backoff sleep before its next attempt,
                \* in half seconds (0: none)
    scored      \* scored_loan_applications: application_id -> risk_score
                \* (in millionths) and risk_level of its row

\* The observations of one execution; they are recorded by the specification
\* of a single execution and left alone by the specification of the system.
obsVars == <<invocations, writes, delay>>

\* The web client (TodaysDashboardPage and its components).
VARIABLES
    dashboard,  \* TodaysDashboardPage: dashboardFilters, totalAppsInTable, the
                \* build's API key, and whether a render has left the table's
                \* load effect to run
    chains,     \* load id -> the fetchAllPages chain loadAllData started
    latest,     \* id of the most recent loadAllData call (0: none)
    table,      \* ApplicationsTable's state
    graphs,     \* CountGraph's and RiskGraph's state
    pager       \* PaginationControls' props and its calls of onPageChange

clientVars == <<dashboard, chains, latest, table, graphs, pager>>

serverVars == <<ledger, disp, dispResult, dispApp, nextId, expiries, exec, remote,
                store, dlq, invocations, writes, delay, scored>>

vars == <<serverVars, clientVars>>

dispVars == <<disp, dispResult, dispApp, nextId>>

(***************************************************************************)
(* scored_loan_applications (schema.sql): risk_score is a DECIMAL(7,6) and  *)
(* is kept in millionths; risk_level is generated from it and stored.       *)
(* The rows are written by the PERSIST Lambda, whose code is not part of    *)
(* the repository; the specification of the table draws the scores from     *)
(* RiskScores.                                                              *)
(***************************************************************************)
ScoreScale == 1000000

HighFrom == 750000

MediumFrom == 350000

\* The scores written: the least and the greatest DECIMAL(7,6), 0, 1 and
\* the scores at and next to the two thresholds.
RiskScores ==
    {1 - 10 * ScoreScale, 0, MediumFrom - 1, MediumFrom, MediumFrom + 1,
     HighFrom - 1, HighFrom, HighFrom + 1, ScoreScale, 10 * ScoreScale - 1}

\* The CASE with > in place of >=.
risk_levelAboveOnly(risk_score) ==
    IF risk_score > HighFrom THEN "HIGH"
    ELSE IF risk_score > MediumFrom THEN "MEDIUM"
    ELSE "LOW"

\* GENERATED ALWAYS AS (CASE ... END) STORED
risk_level(risk_score) ==
    IF risk_score >= HighFrom THEN "HIGH"
    ELSE IF risk_score >= MediumFrom THEN "MEDIUM"
    ELSE "LOW"

NoRow == [present |-> FALSE, risk_score |-> 0, risk_level |-> "-"]

NoRows == scored = [a \in AppIds |-> NoRow]

\* INSERT of the row of an application; application_id is the primary key.
InsertRow(a, risk_score) ==
    /\ ~scored[a].present
    /\ scored' = [scored EXCEPT ![a] =
                    [present |-> TRUE, risk_score |-> risk_score,
                     risk_level |-> risk_level(risk_score)]]
    /\ UNCHANGED <<ledger, disp, dispResult, dispApp, nextId, expiries, exec,
                   remote, store, dlq, obsVars, clientVars>>

\* UPDATE of the risk_score of a row: the generated column follows.
UpdateRow(a, risk_score) ==
    /\ scored[a].present
    /\ scored' = [scored EXCEPT ![a] =
                    [@ EXCEPT !.risk_score = risk_score,
                              !.risk_level = risk_level(risk_score)]]
    /\ UNCHANGED <<ledger, disp, dispResult, dispApp, nextId, expiries, exec,
                   remote, store, dlq, obsVars, clientVars>>

NoEntry == [state |-> "NONE", applicationId |-> 0]

\* An execution that has not been started.
NoExec ==
    [status |-> "NOT_STARTED", cur |-> "-", retryCount |-> 0,
     input |-> [application_id |-> 0, naturalKey |-> "-"],
     data |-> {}, errorInfo |-> NoError, lastError |-> NoError,
     attempts |-> 0, order |-> <<>>, done |-> {},
     retried |-> FALSE, failedAt |-> "-", dlqSends |-> 0, marked |-> 0]

\* StartExecution with the given input: the execution enters StartAt with
\* the input as its state data.
NewExec(in) ==
    [NoExec EXCEPT !.status = "RUNNING", !.cur = StartAt, !.input = in,
                   !.data = {"application_id", "raw_application"}]

Terminal(x) == x.status \in {"SUCCEEDED", "FAILED"}

\* ------------------------------------------------------------- the ledger
\* A ledger write that is not conditional on the entry being absent.
BeginOrRejectAdmitsInProgress(entry) ==
    CASE entry.state = "NONE" -> "Admitted"
      [] entry.state = "IN_PROGRESS" -> "Admitted"
      [] entry.state = "COMPLETED" -> "AlreadyCompleted"

\* Any existing entry reported as completed.
BeginOrRejectReportsCompleted(entry) ==
    CASE entry.state = "NONE" -> "Admitted"
      [] entry.state = "IN_PROGRESS" -> "AlreadyCompleted"
      [] entry.state = "COMPLETED" -> "AlreadyCompleted"

\* Any existing entry reported as in progress.
BeginOrRejectReportsInProgress(entry) ==
    CASE entry.state = "NONE" -> "Admitted"
      [] entry.state = "IN_PROGRESS" -> "AlreadyInProgress"
      [] entry.state = "COMPLETED" -> "AlreadyInProgress"

\* No ledger lookup: every delivery is admitted.
BeginOrRejectAlwaysAdmits(entry) == "Admitted"

\* beginOrReject(naturalKey): one atomic conditional write.
BeginOrRejectResult(entry) ==
    CASE entry.state = "NONE" -> "Admitted"
      [] entry.state = "IN_PROGRESS" -> "AlreadyInProgress"
      [] entry.state = "COMPLETED" -> "AlreadyCompleted"

\* markCompleted(applicationId): the entry of that application, if it is
\* still there, becomes COMPLETED.
markCompleted(l, a) ==
    [k \in Keys |->
        IF l[k].state = "IN_PROGRESS" /\ l[k].applicationId = a
        THEN [l[k] EXCEPT !.state = "COMPLETED"]
        ELSE l[k]]

\* ------------------------------------------------------------- dispatcher
BeginOrReject(d) ==
    /\ disp[d] = "queued"
    /\ LET k == d[1]
           r == BeginOrRejectResult(ledger[k])
       IN /\ disp' = [disp EXCEPT ![d] = IF r = "Admitted" THEN "admitted" ELSE "rejected"]
          /\ dispResult' = [dispResult EXCEPT ![d] = r]
          /\ IF r = "Admitted"
             THEN /\ ledger' = [ledger EXCEPT ![k] =
                        [state |-> "IN_PROGRESS", applicationId |-> nextId]]
                  /\ dispApp' = [dispApp EXCEPT ![d] = nextId]
                  /\ nextId' = nextId + 1
             ELSE UNCHANGED <<ledger, dispApp, nextId>>
    /\ UNCHANGED <<expiries, exec, remote, store, dlq>>

StartWorkflow(d) ==
    /\ disp[d] = "admitted"
    /\ LET a == dispApp[d]
       IN exec' = [exec EXCEPT ![a] =
                     NewExec([application_id |-> a, naturalKey |-> d[1]])]
    /\ disp' = [disp EXCEPT ![d] = "started"]
    /\ UNCHANGED <<ledger, dispResult, dispApp, nextId, expiries, remote, store, dlq>>

\* An admitted message acknowledged as soon as its workflow has been started.
AcknowledgeOnStart(d) ==
    /\ disp[d] \in {"rejected", "started"}
    /\ disp' = [disp EXCEPT ![d] = "acked"]
    /\ UNCHANGED <<ledger, dispResult, dispApp, nextId, expiries, exec, remote, store, dlq>>

\* A duplicate is acknowledged at once; an admitted message only when its
\* workflow has ended.
Acknowledge(d) ==
    /\ \/ disp[d] = "rejected"
       \/ disp[d] = "started" /\ Terminal(exec[dispApp[d]])
    /\ disp' = [disp EXCEPT ![d] = "acked"]
    /\ UNCHANGED <<ledger, dispResult, dispApp, nextId, expiries, exec, remote, store, dlq>>

\* The TTL of a ledger entry passes.
Expire(k) ==
    /\ ledger[k].state # "NONE"
    /\ expiries[k] < MaxExpiries
    /\ ledger' = [ledger EXCEPT ![k] = NoEntry]
    /\ expiries' = [expiries EXCEPT ![k] = @ + 1]
    /\ UNCHANGED <<dispVars, exec, remote, store, dlq>>

\* --------------------------------------------------------------- workflow
\* One more invocation of stage T's Lambda by execution x; attempts counts
\* the invocations of the stage the execution is in (or failed in).
Invoked(x, T) ==
    [x EXCEPT !.attempts = IF x.order # <<>> /\ x.order[Len(x.order)] = T
                           THEN @ + 1 ELSE 1,
              !.order = IF @ # <<>> /\ @[Len(@)] = T THEN @ ELSE Append(@, T)]

\* MaxAttempts read as the total number of attempts instead of the number of
\* retries.
OnErrorCountsFirstAttempt(x, T, err) ==
    IF err \in RetryErrorEquals(T) /\ x.retryCount + 1 < RetryMaxAttempts(T)
    THEN [x EXCEPT !.retryCount = @ + 1, !.retried = TRUE, !.lastError = err]
    ELSE [x EXCEPT !.cur = CatchNext(T), !.retryCount = 0,
                   !.lastError = IF T = DLQ THEN @ ELSE err,
                   !.data = @ \cup {CatchResultPath(T)},
                   !.errorInfo = IF T = DLQ THEN @ ELSE err,
                   !.failedAt = IF T = DLQ THEN @ ELSE T]

\* States.Timeout taken for the end of a successful attempt: the execution
\* goes on to Next with the state data it had.
OnErrorTimeoutContinues(x, T, err) ==
    IF err = "States.Timeout" /\ T # DLQ
    THEN [x EXCEPT !.cur = NextState(T), !.retryCount = 0,
                   !.done = @ \cup {T}, !.lastError = err,
                   !.status = IF NextState(T) = "End" THEN "SUCCEEDED" ELSE @]
    ELSE IF err \in RetryErrorEquals(T) /\ x.retryCount < RetryMaxAttempts(T)
    THEN [x EXCEPT !.retryCount = @ + 1, !.retried = TRUE, !.lastError = err]
    ELSE [x EXCEPT !.cur = CatchNext(T), !.retryCount = 0,
                   !.lastError = IF T = DLQ THEN @ ELSE err,
                   !.data = @ \cup {CatchResultPath(T)},
                   !.errorInfo = IF T = DLQ THEN @ ELSE err,
                   !.failedAt = IF T = DLQ THEN @ ELSE T]

\* The error of a retried attempt left in the state data, as a Catch's
\* ResultPath would leave it.
OnErrorRetryKeepsErrorInfo(x, T, err) ==
    IF err \in RetryErrorEquals(T) /\ x.retryCount < RetryMaxAttempts(T)
    THEN [x EXCEPT !.retryCount = @ + 1, !.retried = TRUE, !.lastError = err,
                   !.data = @ \cup {CatchResultPath(T)}]
    ELSE [x EXCEPT !.cur = CatchNext(T), !.retryCount = 0,
                   !.lastError = IF T = DLQ THEN @ ELSE err,
                   !.data = @ \cup {CatchResultPath(T)},
                   !.errorInfo = IF T = DLQ THEN @ ELSE err,
                   !.failedAt = IF T = DLQ THEN @ ELSE T]

\* A Retry block whose ErrorEquals is States.ALL: every error is retried
\* while retries remain.
OnErrorRetriesUnlisted(x, T, err) ==
    IF x.retryCount < RetryMaxAttempts(T)
    THEN [x EXCEPT !.retryCount = @ + 1, !.retried = TRUE, !.lastError = err]
    ELSE [x EXCEPT !.cur = CatchNext(T), !.retryCount = 0,
                   !.lastError = IF T = DLQ THEN @ ELSE err,
                   !.data = @ \cup {CatchResultPath(T)},
                   !.errorInfo = IF T = DLQ THEN @ ELSE err,
                   !.failedAt = IF T = DLQ THEN @ ELSE T]

\* A Task attempt ended with error err: the Retry block applies while the
\* error is listed and retries remain, otherwise the Catch block does.
OnError(x, T, err) ==
    IF err \in RetryErrorEquals(T) /\ x.retryCount < RetryMaxAttempts(T)
    THEN [x EXCEPT !.retryCount = @ + 1, !.retried = TRUE, !.lastError = err]
    ELSE [x EXCEPT !.cur = CatchNext(T), !.retryCount = 0,
                   !.lastError = IF T = DLQ THEN @ ELSE err,
                   !.data = @ \cup {CatchResultPath(T)},
                   !.errorInfo = IF T = DLQ THEN @ ELSE err,
                   !.failedAt = IF T = DLQ THEN @ ELSE T]

\* One retry counter for the whole execution: a success does not reset it.
OnSuccessKeepsRetryCount(x, T, out) ==
    [x EXCEPT !.cur = NextState(T), !.data = out,
              !.done = @ \cup {T}, !.lastError = NoError,
              !.status = IF NextState(T) = "End" THEN "SUCCEEDED" ELSE @]

\* A Task attempt succeeded: the result is placed into the state data and the
\* execution moves to Next, or ends SUCCEEDED at End: true.
OnSuccess(x, T, out) ==
    [x EXCEPT !.cur = NextState(T), !.retryCount = 0, !.data = out,
              !.done = @ \cup {T}, !.lastError = NoError,
              !.status = IF NextState(T) = "End" THEN "SUCCEEDED" ELSE @]

\* A write that reports success without storing the row.
PersistWriteDropsRow(s, a) == s

\* An insert-only write: every write of the application adds a row.
PersistWriteInsertsAgain(s, a) == [s EXCEPT ![a] = @ + 1]

\* INSERT of a row into scored_loan_applications, application_id PRIMARY KEY.
PersistWrite(s, a) == [s EXCEPT ![a] = 1]

Running(a, T) == exec[a].status = "RUNNING" /\ exec[a].cur = T

\* No ResultPath: the Lambda's output (the application_id and the engineered
\* features) replaces the state data.
CleanAndFeatureEngineer(a) ==
    /\ Running(a, CLEAN)
    /\ \/ exec' = [exec EXCEPT ![a] =
              OnSuccess(Invoked(@, CLEAN), CLEAN,
                        {"application_id", "features_for_scoring"})]
       \/ \E err \in ErrorNames :
              exec' = [exec EXCEPT ![a] = OnError(Invoked(@, CLEAN), CLEAN, err)]
    /\ UNCHANGED <<ledger, dispVars, expiries, remote, store, dlq>>

\* No ResultPath on CallScoringService: the result replaces the state data.
ScoreOutputReplacesData(data) == {"risk_score"}

\* ResultPath $.risk_score: the result is added to the state data.
ScoreOutput(data) == data \cup {"risk_score"}

\* No InputPath on PersistScoredApplication: its Lambda receives the whole
\* state data.
PersistInput(x) == x.data

\* InputPath $.features_for_scoring selects the Lambda's input from the state
\* data; ResultPath $.risk_score adds the result to it.
CallScoringService(a) ==
    /\ Running(a, SCORE)
    /\ "features_for_scoring" \in exec[a].data
    /\ \/ exec' = [exec EXCEPT ![a] =
              OnSuccess(Invoked(@, SCORE), SCORE, ScoreOutput(@.data))]
       \/ \E err \in ErrorNames :
              exec' = [exec EXCEPT ![a] = OnError(Invoked(@, SCORE), SCORE, err)]
    /\ UNCHANGED <<ledger, dispVars, expiries, remote, store, dlq>>

\* End: true. A successful attempt has stored the row; the execution ends
\* SUCCEEDED and the ledger entry is marked completed. An attempt that ends
\* with a timeout or a lost response may leave its Lambda invocation running.
PersistScoredApplication(a) ==
    /\ Running(a, PERSIST)
    /\ \/ /\ exec' = [exec EXCEPT ![a] =
                 [OnSuccess(Invoked(@, PERSIST), PERSIST, @.data)
                    EXCEPT !.marked = @ + 1]]
          /\ store' = PersistWrite(store, exec[a].input.application_id)
          /\ ledger' = markCompleted(ledger, exec[a].input.application_id)
          /\ UNCHANGED remote
       \/ /\ \E err \in ErrorNames :
                 /\ exec' = [exec EXCEPT ![a] =
                        OnError(Invoked(@, PERSIST), PERSIST, err)]
                 /\ remote' = [remote EXCEPT ![a] = @ \/ (err \in LostResponseErrors)]
          /\ UNCHANGED <<store, ledger>>
    /\ UNCHANGED <<dispVars, expiries, dlq>>

\* The Lambda invocation of a PERSIST attempt that timed out or whose response
\* was lost is not cancelled: it may still finish its write after the
\* orchestrator stopped waiting for it.
RemotePersistCompletes(a) ==
    /\ remote[a]
    /\ remote' = [remote EXCEPT ![a] = FALSE]
    /\ store' = PersistWrite(store, exec[a].input.application_id)
    /\ UNCHANGED <<ledger, dispVars, expiries, exec, dlq>>

\* sqs:sendMessage, no Retry block: the send either succeeds (ResultPath
\* $.sqsSendMessageResult) or its error is caught (sendToDlqErrorDetails).
SendToDLQ(a) ==
    /\ Running(a, DLQ)
    /\ \/ /\ dlq' = Append(dlq, DlqMessageBody(exec[a]))
          /\ exec' = [exec EXCEPT ![a] =
                 [@ EXCEPT !.cur = NextState(DLQ), !.dlqSends = @ + 1,
                           !.data = @ \cup {"sqsSendMessageResult"}]]
       \/ /\ exec' = [exec EXCEPT ![a] =
                 OnError([@ EXCEPT !.dlqSends = @ + 1], DLQ, "SQS.SdkClientException")]
          /\ UNCHANGED dlq
    /\ UNCHANGED <<ledger, dispVars, expiries, remote, store>>

\* A Fail state that ends every running execution with this one.
ProcessingFailedStopsAll(a) ==
    /\ Running(a, FAIL)
    /\ exec' = [b \in AppIds |->
                  IF exec[b].status = "RUNNING"
                  THEN [exec[b] EXCEPT !.status = "FAILED"]
                  ELSE exec[b]]
    /\ UNCHANGED <<ledger, dispVars, expiries, remote, store, dlq>>

\* Fail state: the execution ends FAILED.
ProcessingFailed(a) ==
    /\ Running(a, FAIL)
    /\ exec' = [exec EXCEPT ![a].status = "FAILED"]
    /\ UNCHANGED <<ledger, dispVars, expiries, remote, store, dlq>>

\* ----------------------------------------------------------- observations
NothingObserved ==
    /\ invocations = [a \in AppIds |-> 0]
    /\ writes = [a \in AppIds |-> 0]
    /\ delay = [a \in AppIds |-> 0]

\* What a step of a stage's Task state shows of execution a: one invocation
\* of the stage's Lambda, the write of the row if the step wrote it, and, if
\* the Retry block scheduled another attempt, the backoff sleep before it.
StageObserved(a, T, wrote) ==
    /\ invocations' = [invocations EXCEPT ![a] = @ + 1]
    /\ writes' = [writes EXCEPT ![a] = IF wrote THEN @ + 1 ELSE @]
    /\ IF exec'[a].cur = T /\ exec'[a].retryCount > exec[a].retryCount
       THEN \E d \in BackoffRange(T, exec'[a].retryCount) :
                delay' = [delay EXCEPT ![a] = d]
       ELSE delay' = [delay EXCEPT ![a] = 0]

ObservedClean(a) ==
    CleanAndFeatureEngineer(a) /\ StageObserved(a, CLEAN, FALSE)
        /\ UNCHANGED <<clientVars, scored>>

ObservedScore(a) ==
    CallScoringService(a) /\ StageObserved(a, SCORE, FALSE)
        /\ UNCHANGED <<clientVars, scored>>

ObservedPersist(a) ==
    /\ PersistScoredApplication(a)
    /\ StageObserved(a, PERSIST, exec'[a].status = "SUCCEEDED")
    /\ UNCHANGED <<clientVars, scored>>

ObservedRemotePersist(a) ==
    /\ RemotePersistCompletes(a)
    /\ writes' = [writes EXCEPT ![a] = @ + 1]
    /\ UNCHANGED <<invocations, delay, clientVars, scored>>

ObservedSendToDLQ(a) == SendToDLQ(a) /\ UNCHANGED <<obsVars, clientVars, scored>>

ObservedProcessingFailed(a) ==
    ProcessingFailed(a) /\ UNCHANGED <<obsVars, clientVars, scored>>

\* ============================================================ web client
\* ApplicationsTable's default itemsPerPage, which TodaysDashboardPage also
\* passes, and fetchAllPages' apiPageLimit.
itemsPerPage == 50
apiPageLimit == 1000

\* totalCountFromApi = null, and a response whose totalCount is undefined.
NoTotal == -1

\* loadAllData calls followed, and requests one fetch chain may issue.
MaxLoads == 2
MaxRequests == 3

\* The filters DashboardFilters can submit (riskLevel; {} shows all).
FilterValues == {"ALL", "HIGH"}

\* The lengths of response.applications and the values of
\* response.totalCount the server is followed with.
PageLengths == {0, 500, apiPageLimit}
TotalCounts == {NoTotal, 1500, 2000}

LoadIds == 1..MaxLoads

\* What queryPaginatedList resolves with when the response carries nothing:
\* { items: [], executionId: null, nextToken: null }, no applications array.
DefaultPaginated ==
    [isDefault |-> TRUE, hasApps |-> FALSE, n |-> 0, totalCount |-> NoTotal]

\* The objects JSON.parse can return: one without an applications array, or
\* one with an applications array and possibly a totalCount.
ParsedResponses ==
    {[isDefault |-> FALSE, hasApps |-> FALSE, n |-> 0, totalCount |-> NoTotal]}
    \cup {[isDefault |-> FALSE, hasApps |-> TRUE, n |-> n, totalCount |-> t] :
             n \in PageLengths, t \in TotalCounts}

\* How axios.post can end: the request fails (transport "error"), or a
\* response arrives that lacks data.data.getPaginatedRecordList (field
\* FALSE), holds a string JSON.parse rejects (json FALSE), or holds a parsable
\* string.
AxiosOutcomes ==
    {[transport |-> "error", field |-> FALSE, json |-> FALSE, parsed |-> DefaultPaginated],
     [transport |-> "ok", field |-> FALSE, json |-> FALSE, parsed |-> DefaultPaginated],
     [transport |-> "ok", field |-> TRUE, json |-> FALSE, parsed |-> DefaultPaginated]}
    \cup {[transport |-> "ok", field |-> TRUE, json |-> TRUE, parsed |-> r] :
             r \in ParsedResponses}

\* new Promise((resolve) => ...): the first call of resolve settles the
\* promise, later calls are ignored.
PendingPromise == [state |-> "pending", value |-> DefaultPaginated]

\* A resolve that a later resolve overwrites.
ResolveLastWins(p, v) == [state |-> "resolved", value |-> v]

Resolve(p, v) ==
    IF p.state = "pending" THEN [state |-> "resolved", value |-> v] ELSE p

\* queryPaginatedList: .then resolves with the parsed response and then with
\* the default; .catch, which also receives what JSON.parse throws, resolves
\* with the default.
queryPaginatedList(o) ==
    IF o.transport = "error"
    THEN Resolve(PendingPromise, DefaultPaginated)
    ELSE IF ~o.field
    THEN Resolve(PendingPromise, DefaultPaginated)
    ELSE IF ~o.json
    THEN Resolve(PendingPromise, DefaultPaginated)
    ELSE Resolve(Resolve(PendingPromise, o.parsed), DefaultPaginated)

RECURSIVE SumN(_)
\* The number of records in a list of pages.
SumN(pages) == IF pages = <<>> THEN 0 ELSE pages[1].n + SumN(Tail(pages))

\* Math.ceil(length / itemsPerPage).
TotalPagesOf(length) == (length + itemsPerPage - 1) \div itemsPerPage

\* The offset advanced by one per page instead of by the page's length.
NextOffsetCountsPages(currentOffset, n) == currentOffset + 1

\* newOffset = currentOffset + response.applications.length
NextOffset(currentOffset, n) == currentOffset + n

\* hasMoreData without the comparison with the total count.
HasMoreDataIgnoresTotal(n, totalCountFromApi, newOffset) == n = apiPageLimit

\* hasMoreData
HasMoreData(n, totalCountFromApi, newOffset) ==
    n = apiPageLimit /\ (totalCountFromApi = NoTotal \/ newOffset < totalCountFromApi)

NoChain ==
    [status |-> "none", filters |-> "ALL", acc |-> <<>>, offset |-> 0,
     total |-> NoTotal, requests |-> 0, notified |-> 0, count |-> 0,
     defaulted |-> FALSE]

\* useState initial values of ApplicationsTable; shownOf is the load whose
\* chain set allFetchedApps last (0: none since the last reset).
TableMounted ==
    [allFetchedApps |-> <<>>, totalPages |-> 0, isLoading |-> FALSE,
     error |-> FALSE, shownOf |-> 0]

\* The page as first rendered: the table's load effect has yet to run.
TableIdle(apiKey) ==
    /\ dashboard = [filters |-> "ALL", totalAppsInTable |-> 0,
                    apiKey |-> apiKey, effectPending |-> TRUE]
    /\ chains = [c \in LoadIds |-> NoChain]
    /\ latest = 0
    /\ table = TableMounted

Max(a, b) == IF a >= b THEN a ELSE b

Min(a, b) == IF a <= b THEN a ELSE b

\* A slice of the fetched records: the list it was taken from, its first
\* index and its length; every empty slice is the same [].
EmptySlice == [of |-> <<>>, start |-> 0, n |-> 0]

\* startIndex with the pages counted from 0.
StartIndexFromPageZero(currentPage) == currentPage * itemsPerPage

\* startIndex
StartIndex(currentPage) == (currentPage - 1) * itemsPerPage

\* What the slice effect hands to setDisplayedApps.
Slice(allFetchedApps, currentPage) ==
    LET startIndex == StartIndex(currentPage)
        endIndex == startIndex + itemsPerPage
        length == SumN(allFetchedApps)
        n == Max(0, Min(length, endIndex) - Min(length, startIndex))
    IN IF length > 0 /\ n > 0
       THEN [of |-> allFetchedApps, start |-> startIndex, n |-> n]
       ELSE EmptySlice

MaxClicks == 1

\* currentPage and displayedApps of the table as mounted, with the props
\* PaginationControls gets from it; the slice effect has yet to run.
PagerProps(currentPage, totalPages) ==
    [currentPage |-> currentPage, totalPages |-> totalPages,
     clicked |-> "none", from |-> currentPage, called |-> 0, clicks |-> 0,
     displayedApps |-> EmptySlice, slicePending |-> TRUE]

\* getAuthConfig: the API key of the build, if there is one.
getAuthConfig(apiKey) ==
    IF apiKey THEN [authToken |-> TRUE, authType |-> "API_KEY"]
    ELSE [authToken |-> FALSE, authType |-> "NONE"]

\* An auth guard that lets every configuration pass.
AuthConfiguredAlways(authConfig) == TRUE

\* The auth guard of loadAllData and of both loadGraphData, negated.
AuthConfigured(authConfig) ==
    ~(\/ ~authConfig.authToken
      \/ authConfig.authType = "NONE"
      \/ authConfig.authType = "API_KEY_ERROR")

\* onDataLoaded(count): handleTableDataLoaded sets totalAppsInTable; a changed
\* value re-renders the page, which hands the table a new onDataLoaded and so
\* a new loadAllData, and the table's load effect runs again.
OnDataLoaded(d, count) ==
    [d EXCEPT !.totalAppsInTable = count,
              !.effectPending = @ \/ count # d.totalAppsInTable]

\* handleDashboardFilterSubmission: new dashboardFilters, a re-render, and
\* the table's load effect to run.
SubmitFilters(f) ==
    /\ latest < MaxLoads
    /\ dashboard' = [dashboard EXCEPT !.filters = f, !.effectPending = TRUE]
    /\ UNCHANGED <<chains, latest, table, graphs, pager, serverVars>>

\* useEffect -> loadAllData(initialFilters): the state is reset; without an
\* API key the load ends at once with an error, otherwise fetchAllPages()
\* issues the first request.
LoadAllData ==
    /\ dashboard.effectPending
    /\ latest < MaxLoads
    /\ latest' = latest + 1
    /\ pager' = PagerProps(1, 0)
    /\ IF ~AuthConfigured(getAuthConfig(dashboard.apiKey))
       THEN /\ table' = [TableMounted EXCEPT !.error = TRUE]
            /\ chains' = [chains EXCEPT ![latest + 1] =
                            [NoChain EXCEPT !.status = "unauthenticated",
                                            !.filters = dashboard.filters,
                                            !.notified = 1]]
            /\ dashboard' = OnDataLoaded([dashboard EXCEPT !.effectPending = FALSE], 0)
       ELSE /\ table' = [TableMounted EXCEPT !.isLoading = TRUE]
            /\ chains' = [chains EXCEPT ![latest + 1] =
                            [NoChain EXCEPT !.status = "inflight",
                                            !.filters = dashboard.filters,
                                            !.requests = 1]]
            /\ dashboard' = [dashboard EXCEPT !.effectPending = FALSE]
    /\ UNCHANGED <<graphs, serverVars>>

\* The end of a chain: setAllFetchedApps, setTotalPages, setIsLoading(false)
\* and onDataLoaded(list.length).  defaulted records that the chain ended on
\* the default value of queryPaginatedList.
Publish(c, list, defaulted) ==
    /\ table' = [table EXCEPT !.allFetchedApps = list,
                              !.totalPages = TotalPagesOf(SumN(list)),
                              !.isLoading = FALSE,
                              !.shownOf = c]
    /\ chains' = [chains EXCEPT ![c] =
                    [@ EXCEPT !.status = "finished", !.acc = list,
                              !.notified = @ + 1, !.count = SumN(list),
                              !.defaulted = defaulted]]
    /\ pager' = [pager EXCEPT !.totalPages = TotalPagesOf(SumN(list)),
                              !.slicePending = TRUE]
    /\ dashboard' = OnDataLoaded(dashboard, SumN(list))

\* The .then callback of fetchAllPages for chain c and response r.
ThenPage(c, r) ==
    LET ch == chains[c]
        newAccumulatedApps == Append(ch.acc, [off |-> ch.offset, n |-> r.n])
        totalCountFromApi ==
            IF ch.offset = 0 /\ r.totalCount # NoTotal THEN r.totalCount ELSE ch.total
        newOffset == NextOffset(ch.offset, r.n)
    IN IF r.hasApps
       THEN IF HasMoreData(r.n, totalCountFromApi, newOffset)
            THEN /\ ch.requests < MaxRequests
                 /\ chains' = [chains EXCEPT ![c] =
                                 [ch EXCEPT !.acc = newAccumulatedApps,
                                            !.offset = newOffset,
                                            !.total = totalCountFromApi,
                                            !.requests = @ + 1]]
                 /\ UNCHANGED <<table, dashboard, pager>>
            ELSE Publish(c, newAccumulatedApps, FALSE)
       ELSE Publish(c, ch.acc, r.isDefault)

\* The .catch callback of fetchAllPages: setError, setIsLoading(false), what
\* was fetched so far is shown if there is any, onDataLoaded.
CatchPage(c) ==
    LET ch == chains[c]
    IN /\ table' = [table EXCEPT !.error = TRUE, !.isLoading = FALSE,
                                 !.allFetchedApps = IF ch.acc # <<>> THEN ch.acc ELSE @,
                                 !.totalPages = IF ch.acc # <<>>
                                                THEN TotalPagesOf(SumN(ch.acc)) ELSE @,
                                 !.shownOf = IF ch.acc # <<>> THEN c ELSE @]
       /\ chains' = [chains EXCEPT ![c] =
                       [@ EXCEPT !.status = "failed", !.notified = @ + 1,
                                 !.count = SumN(ch.acc)]]
       /\ pager' = IF ch.acc # <<>>
                   THEN [pager EXCEPT !.totalPages = TotalPagesOf(SumN(ch.acc)),
                                      !.slicePending = TRUE]
                   ELSE pager
       /\ dashboard' = OnDataLoaded(dashboard, SumN(ch.acc))

\* The request of chain c ends and queryPaginatedList's promise settles.
Respond(c) ==
    /\ chains[c].status = "inflight"
    /\ \E o \in AxiosOutcomes :
          LET p == queryPaginatedList(o)
          IN CASE p.state = "resolved" -> ThenPage(c, p.value)
               [] p.state = "rejected" -> CatchPage(c)
               [] OTHER -> FALSE
    /\ UNCHANGED <<latest, graphs, serverVars>>

(***************************************************************************)
(* The graphs: CountGraph (utils.jsx) and RiskGraph, each loading its data  *)
(* once after mounting with queryRecordList.  GraphsSection is memoised and *)
(* always passes both dates, so the filters never change and the date      *)
(* check of loadGraphData always passes.                                    *)
(***************************************************************************)
MaxItems == 2

Graphs == {"count", "risk"}

\* The parsed strings of a getRecordList array: a record with a numeric risk
\* bucket, a record of the "other" bucket and a record without a riskBucket.
RecordItems == {"numeric", "other", "nobucket"}

RecordLists == UNION {[1..n -> RecordItems] : n \in 0..MaxItems}

\* What axios.post can end in for getRecordList: a transport error, a
\* response without the field, a field that .map or JSON.parse throws on,
\* and an array of strings that parse to the items.
RecordOutcomes ==
    {[transport |-> "error", field |-> FALSE, json |-> FALSE, items |-> <<>>],
     [transport |-> "ok", field |-> FALSE, json |-> FALSE, items |-> <<>>],
     [transport |-> "ok", field |-> TRUE, json |-> FALSE, items |-> <<>>]}
    \cup {[transport |-> "ok", field |-> TRUE, json |-> TRUE, items |-> l] :
             l \in RecordLists}

\* queryRecordList: .then resolves with the parsed items and then with the
\* empty result; .catch, which also catches a throw of JSON.parse, resolves
\* with the empty result.
queryRecordList(o) ==
    IF o.transport = "error" THEN Resolve(PendingPromise, <<>>)
    ELSE IF ~o.field THEN Resolve(PendingPromise, <<>>)
    ELSE IF ~o.json THEN Resolve(PendingPromise, <<>>)
    ELSE Resolve(Resolve(PendingPromise, o.items), <<>>)

\* useState([]), useState(true), useState(null)
GraphMounted ==
    [status |-> "mounted", chartData |-> <<>>, isLoading |-> TRUE,
     error |-> FALSE]

GraphsIdle == graphs = [g \in Graphs |-> GraphMounted]

\* RiskGraph's filter: item.riskBucket.toLowerCase() throws for a record
\* without a riskBucket; otherwise the numeric buckets are kept.
FilterThrows(response) ==
    \E i \in 1..Len(response) : response[i] = "nobucket"

FilteredData(response) == SelectSeq(response, LAMBDA item : item = "numeric")

\* isLoading after loadGraphData has started the request: CountGraph's
\* finally block, which does not wait for the response, has run.
LoadingAfterRequest(g) == g # "count"

\* loadGraphData, run by the effect after mounting.
LoadGraphData(g) ==
    /\ graphs[g].status = "mounted"
    /\ graphs' =
         [graphs EXCEPT ![g] =
            IF ~AuthConfigured(getAuthConfig(dashboard.apiKey))
            THEN [@ EXCEPT !.status = "unauthenticated", !.error = TRUE,
                           !.chartData = <<>>, !.isLoading = FALSE]
            ELSE [@ EXCEPT !.status = "inflight", !.error = FALSE,
                           !.chartData = <<>>,
                           !.isLoading = LoadingAfterRequest(g)]]
    /\ UNCHANGED <<dashboard, chains, latest, table, pager, serverVars>>

\* The .then of the component on the settled promise.  A rejection would
\* reach no handler: the call is not awaited, so the try/catch around it
\* only sees synchronous throws.
GraphThen(g, p) ==
    IF p.state # "resolved"
    THEN [graphs[g] EXCEPT !.status = "rejected"]
    ELSE IF g = "count"
    THEN [graphs[g] EXCEPT !.status = "applied", !.chartData = p.value]
    ELSE IF FilterThrows(p.value)
    THEN [graphs[g] EXCEPT !.status = "thrown"]
    ELSE [graphs[g] EXCEPT !.status = "applied",
                           !.chartData = FilteredData(p.value),
                           !.isLoading = FALSE]

\* The request of a graph ends and the component handles the result.
GraphRespond(g) ==
    /\ graphs[g].status = "inflight"
    /\ \E o \in RecordOutcomes :
          graphs' = [graphs EXCEPT ![g] = GraphThen(g, queryRecordList(o))]
    /\ UNCHANGED <<dashboard, chains, latest, table, pager, serverVars>>

\* What the component renders.
GraphView(g) ==
    IF graphs[g].isLoading THEN "loading"
    ELSE IF graphs[g].error THEN "error"
    ELSE IF graphs[g].chartData = <<>> THEN "nodata"
    ELSE "chart"

(***************************************************************************)
(* PaginationControls (paginationControls.jsx), rendered by the table with  *)
(* its currentPage and totalPages and with handlePageChange, which sets     *)
(* currentPage, as onPageChange.  pager holds the two props, the button     *)
(* clicked last, the page the click happened on and the argument of the     *)
(* onPageChange call it made (0: no call).                                  *)
(***************************************************************************)
MaxPages == 8

maxPagesToShow == 5

\* The table as mounted: useState(1) and useState(0).
PagerIdle == pager = PagerProps(1, 0)

\* if (totalPages <= 1) return null
Rendered == pager.totalPages > 1

\* endPage
EndPage(currentPage, totalPages) ==
    Min(totalPages,
        Max(1, currentPage - maxPagesToShow \div 2) + maxPagesToShow - 1)

\* startPage without the adjustment of a window cut short by the last page.
StartPageUnadjusted(currentPage, totalPages) ==
    Max(1, currentPage - maxPagesToShow \div 2)

\* startPage, after the adjustment of a window cut short by the last page
StartPage(currentPage, totalPages) ==
    LET startPage == Max(1, currentPage - maxPagesToShow \div 2)
        endPage == EndPage(currentPage, totalPages)
    IN IF totalPages > maxPagesToShow /\ endPage - startPage + 1 < maxPagesToShow
       THEN Max(1, endPage - maxPagesToShow + 1)
       ELSE startPage

\* pageNumbers
PageNumbers(currentPage, totalPages) ==
    StartPage(currentPage, totalPages)..EndPage(currentPage, totalPages)

\* The pages some rendered button stands for: the numbered buttons, the "1"
\* button and the button of the last page.
PageButtons(currentPage, totalPages) ==
    PageNumbers(currentPage, totalPages)
    \cup (IF StartPage(currentPage, totalPages) > 1 THEN {1} ELSE {})
    \cup (IF EndPage(currentPage, totalPages) < totalPages
          THEN {totalPages} ELSE {})

\* The "..." after the "1" button and the one before the last page's button.
LeadingEllipsis(currentPage, totalPages) ==
    StartPage(currentPage, totalPages) > 2

TrailingEllipsis(currentPage, totalPages) ==
    EndPage(currentPage, totalPages) < totalPages - 1

\* disabled={currentPage === number} of a numbered button; a mutant that
\* never disables it comes first.
NumberNeverDisabled(number) == FALSE

NumberDisabled(number) == pager.currentPage = number

\* onPageChange(newPage) from a click on a button: handlePageChange of the
\* table sets currentPage.
OnPageChange(button, newPage) ==
    pager' = [pager EXCEPT !.currentPage = newPage, !.clicked = button,
                           !.from = pager.currentPage, !.called = newPage,
                           !.clicks = Min(@ + 1, MaxClicks),
                           !.slicePending = @ \/ newPage # pager.currentPage]

\* A click that calls nothing: a disabled button, or a handler whose guard
\* fails.
NoCall(button) ==
    pager' = [pager EXCEPT !.clicked = button, !.from = pager.currentPage,
                           !.called = 0]

\* Previous: disabled on page 1; handlePrevious.
ClickPrevious ==
    /\ Rendered
    /\ IF pager.currentPage = 1 THEN NoCall("previous")
       ELSE IF pager.currentPage > 1
       THEN OnPageChange("previous", pager.currentPage - 1)
       ELSE NoCall("previous")
    /\ UNCHANGED <<dashboard, chains, latest, table, graphs, serverVars>>

\* Next: disabled on the last page; handleNext.
ClickNext ==
    /\ Rendered
    /\ IF pager.currentPage = pager.totalPages THEN NoCall("next")
       ELSE IF pager.currentPage < pager.totalPages
       THEN OnPageChange("next", pager.currentPage + 1)
       ELSE NoCall("next")
    /\ UNCHANGED <<dashboard, chains, latest, table, graphs, serverVars>>

\* The "1" button, rendered when the window starts after page 1.
ClickFirstPage ==
    /\ Rendered
    /\ StartPage(pager.currentPage, pager.totalPages) > 1
    /\ OnPageChange("first", 1)
    /\ UNCHANGED <<dashboard, chains, latest, table, graphs, serverVars>>

\* A numbered button of the window.
ClickPageNumber(number) ==
    /\ Rendered
    /\ number >= StartPage(pager.currentPage, pager.totalPages)
    /\ number <= EndPage(pager.currentPage, pager.totalPages)
    /\ IF NumberDisabled(number) THEN NoCall("number")
       ELSE OnPageChange("number", number)
    /\ UNCHANGED <<dashboard, chains, latest, table, graphs, serverVars>>

\* The button of the last page, rendered when the window ends before it.
ClickLastPage ==
    /\ Rendered
    /\ EndPage(pager.currentPage, pager.totalPages) < pager.totalPages
    /\ OnPageChange("last", pager.totalPages)
    /\ UNCHANGED <<dashboard, chains, latest, table, graphs, serverVars>>

\* The table's effect on [allFetchedApps, currentPage, itemsPerPage]:
\* displayedApps becomes the slice of the current page.
SliceEffect ==
    /\ pager.slicePending
    /\ pager' = [pager EXCEPT
                   !.displayedApps = Slice(table.allFetchedApps, pager.currentPage),
                   !.slicePending = FALSE]
    /\ UNCHANGED <<dashboard, chains, latest, table, graphs, serverVars>>

\* A click on the pagination controls of the table, which renders them
\* when it is neither loading nor in error and has records on more than
\* one page.
TablePageChange ==
    /\ ~table.isLoading
    /\ ~table.error
    /\ SumN(table.allFetchedApps) > 0
    /\ pager.clicks < MaxClicks
    /\ \/ ClickPrevious
       \/ ClickNext
       \/ ClickFirstPage
       \/ \E number \in PageNumbers(pager.currentPage, pager.totalPages) :
             ClickPageNumber(number)
       \/ ClickLastPage

ClientIdle == TableIdle(TRUE) /\ GraphsIdle /\ PagerIdle

\* ---------------------------------------------------------- specification
Init ==
    /\ ledger = [k \in Keys |-> NoEntry]
    /\ disp = [d \in Deliveries |-> "queued"]
    /\ dispResult = [d \in Deliveries |-> "-"]
    /\ dispApp = [d \in Deliveries |-> 0]
    /\ nextId = 1
    /\ expiries = [k \in Keys |-> 0]
    /\ exec = [a \in AppIds |-> NoExec]
    /\ remote = [a \in AppIds |-> FALSE]
    /\ store = [a \in AppIds |-> 0]
    /\ dlq = <<>>
    /\ NothingObserved
    /\ NoRows
    /\ ClientIdle

Next ==
    \/ \E d \in Deliveries : BeginOrReject(d) /\ UNCHANGED <<obsVars, clientVars, scored>>
    \/ \E d \in Deliveries : StartWorkflow(d) /\ UNCHANGED <<obsVars, clientVars, scored>>
    \/ \E d \in Deliveries : Acknowledge(d) /\ UNCHANGED <<obsVars, clientVars, scored>>
    \/ \E k \in Keys : Expire(k) /\ UNCHANGED <<obsVars, clientVars, scored>>
    \/ \E a \in AppIds : CleanAndFeatureEngineer(a) /\ UNCHANGED <<obsVars, clientVars, scored>>
    \/ \E a \in AppIds : CallScoringService(a) /\ UNCHANGED <<obsVars, clientVars, scored>>
    \/ \E a \in AppIds : PersistScoredApplication(a) /\ UNCHANGED <<obsVars, clientVars, scored>>
    \/ \E a \in AppIds : RemotePersistCompletes(a) /\ UNCHANGED <<obsVars, clientVars, scored>>
    \/ \E a \in AppIds : SendToDLQ(a) /\ UNCHANGED <<obsVars, clientVars, scored>>
    \/ \E a \in AppIds : ProcessingFailed(a) /\ UNCHANGED <<obsVars, clientVars, scored>>

Spec == Init /\ [][Next]_vars

\* One execution, from the moment the Dispatcher has admitted delivery 1 of a
\* message and started its workflow.
FirstKey == CHOOSE k \in Keys : TRUE

InitWorkflow ==
    /\ ledger = [k \in Keys |->
                   IF k = FirstKey
                   THEN [state |-> "IN_PROGRESS", applicationId |-> 1]
                   ELSE NoEntry]
    /\ disp = [d \in Deliveries |->
                 IF d = <<FirstKey, 1>> THEN "started" ELSE "queued"]
    /\ dispResult = [d \in Deliveries |->
                       IF d = <<FirstKey, 1>> THEN "Admitted" ELSE "-"]
    /\ dispApp = [d \in Deliveries |-> IF d = <<FirstKey, 1>> THEN 1 ELSE 0]
    /\ nextId = 2
    /\ expiries = [k \in Keys |-> 0]
    /\ remote = [a \in AppIds |-> FALSE]
    /\ exec = [a \in AppIds |->
                 IF a = 1
                 THEN NewExec([application_id |-> 1, naturalKey |-> FirstKey])
                 ELSE NoExec]
    /\ store = [a \in AppIds |-> 0]
    /\ dlq = <<>>
    /\ NothingObserved
    /\ NoRows
    /\ ClientIdle

NextWorkflow ==
    \/ \E a \in AppIds : ObservedClean(a)
    \/ \E a \in AppIds : ObservedScore(a)
    \/ \E a \in AppIds : ObservedPersist(a)
    \/ \E a \in AppIds : ObservedRemotePersist(a)
    \/ \E a \in AppIds : ObservedSendToDLQ(a)
    \/ \E a \in AppIds : ObservedProcessingFailed(a)

SpecWorkflow == InitWorkflow /\ [][NextWorkflow]_vars

\* The Step Functions service keeps driving an execution: every attempt of a
\* Task state ends (with its result, its error, or States.Timeout after
\* TimeoutSeconds), every backoff sleep ends, and the Fail state is entered.
\* Nothing obliges an abandoned Lambda invocation to finish.
SpecWorkflowLive ==
    /\ SpecWorkflow
    /\ \A a \in AppIds :
          /\ WF_vars(ObservedClean(a))
          /\ WF_vars(ObservedScore(a))
          /\ WF_vars(ObservedPersist(a))
          /\ WF_vars(ObservedSendToDLQ(a))
          /\ WF_vars(ObservedProcessingFailed(a))

\* The table of TodaysDashboardPage from its first render, with or without
\* an API key in the build.
InitTable ==
    /\ ledger = [k \in Keys |-> NoEntry]
    /\ disp = [d \in Deliveries |-> "queued"]
    /\ dispResult = [d \in Deliveries |-> "-"]
    /\ dispApp = [d \in Deliveries |-> 0]
    /\ nextId = 1
    /\ expiries = [k \in Keys |-> 0]
    /\ exec = [a \in AppIds |-> NoExec]
    /\ remote = [a \in AppIds |-> FALSE]
    /\ store = [a \in AppIds |-> 0]
    /\ dlq = <<>>
    /\ NothingObserved
    /\ NoRows
    /\ \E apiKey \in BOOLEAN : TableIdle(apiKey)
    /\ GraphsIdle
    /\ PagerIdle

NextTable ==
    \/ \E f \in FilterValues : SubmitFilters(f)
    \/ LoadAllData
    \/ \E c \in LoadIds : Respond(c)

SpecTable == InitTable /\ [][NextTable]_vars

\* Every request of a chain ends: a response arrives or the request fails.
SpecTableLive ==
    SpecTable /\ \A c \in LoadIds : WF_vars(Respond(c))

\* The pagination controls under every pair of props with at least two
\* pages and the current page among them.
InitPagination ==
    /\ ledger = [k \in Keys |-> NoEntry]
    /\ disp = [d \in Deliveries |-> "queued"]
    /\ dispResult = [d \in Deliveries |-> "-"]
    /\ dispApp = [d \in Deliveries |-> 0]
    /\ nextId = 1
    /\ expiries = [k \in Keys |-> 0]
    /\ exec = [a \in AppIds |-> NoExec]
    /\ remote = [a \in AppIds |-> FALSE]
    /\ store = [a \in AppIds |-> 0]
    /\ dlq = <<>>
    /\ NothingObserved
    /\ NoRows
    /\ TableIdle(TRUE)
    /\ GraphsIdle
    /\ \E totalPages \in 2..MaxPages : \E currentPage \in 1..totalPages :
          pager = PagerProps(currentPage, totalPages)

NextPagination ==
    \/ ClickPrevious
    \/ ClickNext
    \/ ClickFirstPage
    \/ \E number \in 1..MaxPages : ClickPageNumber(number)
    \/ ClickLastPage

SpecPagination == InitPagination /\ [][NextPagination]_vars

\* The table of scored applications under inserts and updates of scores.
NextSchema ==
    \E a \in AppIds : \E risk_score \in RiskScores :
        InsertRow(a, risk_score) \/ UpdateRow(a, risk_score)

SpecSchema == Init /\ [][NextSchema]_vars

\* The table with its pages: the loads, the slice effect and the clicks on
\* the pagination controls.
NextTablePages ==
    \/ NextTable
    \/ SliceEffect
    \/ TablePageChange

SpecTablePages == InitTable /\ [][NextTablePages]_vars

\* The whole dashboard page: the table and the two graphs.
NextGraphs == \E g \in Graphs : LoadGraphData(g) \/ GraphRespond(g)

NextClient == NextTable \/ NextGraphs

SpecClient == InitTable /\ [][NextClient]_vars

\* ================================================================ claims
IsPrefix(p, q) == Len(p) <= Len(q) /\ \A i \in 1..Len(p) : p[i] = q[i]

Attempted(x, T) == \E i \in 1..Len(x.order) : x.order[i] = T

\* The execution ended in the Catch of a stage after that stage's Lambda
\* returned a retryable error on every attempt.
ExhaustedRetries(x) ==
    x.failedAt \in Stages /\ x.errorInfo \in RetryErrorEquals(x.failedAt)

\* C1: the stages an execution attempts, in the order of their attempts, are a
\* prefix of CLEAN, SCORE, PERSIST; SCORE is attempted only after a CLEAN
\* attempt succeeded, PERSIST only after a SCORE attempt succeeded, and the
\* execution is SUCCEEDED only after a PERSIST attempt succeeded.
C1_StagePrefix ==
    \A a \in AppIds :
        LET x == exec[a]
        IN /\ IsPrefix(x.order, StageOrder)
           /\ Attempted(x, SCORE) => CLEAN \in x.done
           /\ Attempted(x, PERSIST) => SCORE \in x.done
           /\ x.status = "SUCCEEDED" => PERSIST \in x.done
           /\ x.done \subseteq {T \in Stages : Attempted(x, T)}

C1_Witness ==
    \E a \in AppIds :
        exec[a].status = "SUCCEEDED" /\ exec[a].order = StageOrder

\* C2 as stated: a stage whose Lambda returns a retryable error on every
\* attempt is invoked exactly MaxAttempts times before the execution fails.
C2_InvokedMaxAttemptsTimes ==
    \A a \in AppIds :
        ExhaustedRetries(exec[a]) =>
            exec[a].attempts = RetryMaxAttempts(exec[a].failedAt)

\* C2 amended: a stage whose Lambda returns a retryable error on every
\* attempt is invoked exactly MaxAttempts + 1 times (the first attempt and
\* MaxAttempts retries) before the execution fails, and no stage is ever
\* invoked more often than that.
C2_InvokedMaxAttemptsPlusOne ==
    \A a \in AppIds :
        LET x == exec[a]
        IN /\ ExhaustedRetries(x) =>
                x.attempts = RetryMaxAttempts(x.failedAt) + 1
           /\ x.order # <<>> =>
                x.attempts <= RetryMaxAttempts(x.order[Len(x.order)]) + 1

C2_Witness ==
    \E a \in AppIds :
        /\ ExhaustedRetries(exec[a])
        /\ exec[a].failedAt = SCORE
        /\ exec[a].attempts = 4
        /\ exec[a].status = "FAILED"

\* ---------------------------------------------------------------- helpers
DeliveriesOf(k) == {d \in Deliveries : d[1] = k}

AdmittedOf(k) == {d \in DeliveriesOf(k) : dispResult[d] = "Admitted"}

\* The executions started for natural key k.
AppsOf(k) ==
    {a \in AppIds : exec[a].status # "NOT_STARTED" /\ exec[a].input.naturalKey = k}

\* The dead-letter records of application a / of natural key k.
DlqOfApp(a) == {i \in 1..Len(dlq) : dlq[i].input.application_id = a}
DlqOfKey(k) == {i \in 1..Len(dlq) : dlq[i].input.naturalKey = k}

\* The applications of natural key k that have a row in the store.
StoredOf(k) == {a \in AppsOf(k) : store[a] > 0}

Started(a) == exec[a].status # "NOT_STARTED"

\* C3: while the ledger entry of a natural key has not expired, however many
\* times the message is delivered, at most one delivery is admitted, exactly
\* one execution is started once a delivery has been handled, and at most one
\* row and at most one dead-letter record exist for the application.
C3_OneWorkflowPerKey ==
    \A k \in Keys :
        expiries[k] = 0 =>
            /\ Cardinality(AdmittedOf(k)) <= 1
            /\ Cardinality(AppsOf(k)) <= 1
            /\ (/\ \E d \in DeliveriesOf(k) : dispResult[d] # "-"
                /\ \A d \in DeliveriesOf(k) : disp[d] # "admitted")
               => Cardinality(AppsOf(k)) = 1
            /\ Cardinality(StoredOf(k)) <= 1
            /\ \A a \in AppsOf(k) : store[a] <= 1
            /\ Cardinality(DlqOfKey(k)) <= 1

C3_Witness ==
    \E k \in Keys :
        /\ expiries[k] = 0
        /\ \A d \in DeliveriesOf(k) : disp[d] = "acked"
        /\ Cardinality(DeliveriesOf(k)) >= 2
        /\ Cardinality(AppsOf(k)) = 1
        /\ Cardinality(StoredOf(k)) = 1

\* C4: of the beginOrReject calls made for one natural key with no ledger
\* entry, under every interleaving exactly one is Admitted; a call that loses
\* is answered AlreadyInProgress unless the winner's workflow has already
\* succeeded; and the store ends with one row for the application.
C4_ConcurrentAdmission ==
    \A k \in Keys :
        expiries[k] = 0 =>
            /\ (\E d \in DeliveriesOf(k) : dispResult[d] # "-")
               => Cardinality(AdmittedOf(k)) = 1
            /\ \A d \in DeliveriesOf(k) :
                  dispResult[d] = "AlreadyCompleted" =>
                      \E a \in AppsOf(k) : exec[a].status = "SUCCEEDED"
            /\ \A a \in AppsOf(k) :
                  exec[a].status = "SUCCEEDED" => StoredOf(k) = {a} /\ store[a] = 1

C4_Witness ==
    \E k \in Keys : \E d1, d2 \in DeliveriesOf(k) :
        /\ expiries[k] = 0
        /\ dispResult[d1] = "Admitted"
        /\ dispResult[d2] = "AlreadyInProgress"
        /\ exec[dispApp[d1]].status = "SUCCEEDED"
        /\ store[dispApp[d1]] = 1

\* C5: an execution that a stage's Catch sent to the failure path invokes the
\* dead-letter send exactly once before it ends FAILED, an execution that
\* SUCCEEDED never invokes it, and a FAILED execution takes no further step.
C5_DeadLetterOnce ==
    /\ [](\A a \in AppIds :
            LET x == exec[a]
            IN /\ x.status = "FAILED" => x.dlqSends = 1 /\ x.failedAt \in Stages
               /\ x.status = "SUCCEEDED" => x.dlqSends = 0
               /\ x.failedAt \in Stages =>
                     /\ x.cur \in {DLQ, FAIL}
                     /\ x.dlqSends = IF x.cur = DLQ THEN 0 ELSE 1)
    /\ [][\A a \in AppIds : exec[a].status = "FAILED" => exec'[a] = exec[a]]_vars

C5_Witness ==
    \E a \in AppIds :
        /\ exec[a].status = "FAILED"
        /\ exec[a].failedAt = PERSIST
        /\ exec[a].dlqSends = 1

\* C6 as stated: the failedStage of every dead-letter record is the stage
\* whose Catch sent the execution to the failure path.
C6_FailedStageIsFailingStage ==
    \A i \in 1..Len(dlq) :
        dlq[i].failedStage = exec[dlq[i].input.application_id].failedAt

\* C7 as stated: no application has both a row in the store and a dead-letter
\* record.
C7_NeverBothRecords ==
    \A a \in AppIds : ~(store[a] > 0 /\ DlqOfApp(a) # {})

\* C8 as stated: once an execution is terminal, a row or a dead-letter record
\* exists for its application.
C8_TerminalHasRecord ==
    \A a \in AppIds :
        Terminal(exec[a]) => store[a] > 0 \/ DlqOfApp(a) # {}

\* C8 amended: once an execution is terminal, a row or a dead-letter record
\* exists for its application, or the dead-letter send was attempted and
\* failed (its error is then under sendToDlqErrorDetails of the execution).
C8_TerminalHasRecordOrSendFailed ==
    \A a \in AppIds :
        Terminal(exec[a]) =>
            \/ store[a] > 0
            \/ DlqOfApp(a) # {}
            \/ exec[a].dlqSends = 1 /\ "sendToDlqErrorDetails" \in exec[a].data

C8_Witness ==
    \E a \in AppIds :
        /\ exec[a].status = "FAILED"
        /\ "sendToDlqErrorDetails" \in exec[a].data
        /\ store[a] = 0
        /\ DlqOfApp(a) = {}

\* C9: when the dead-letter send fails, it has been attempted once and is
\* not attempted again, no record is written, and the execution is in
\* ProcessingFailed, from where it can only end FAILED.
C9_SendFailureStillFails ==
    \A a \in AppIds :
        LET x == exec[a]
        IN /\ x.dlqSends <= 1
           /\ "sendToDlqErrorDetails" \in x.data =>
                 /\ x.dlqSends = 1
                 /\ x.cur = FAIL
                 /\ x.status \in {"RUNNING", "FAILED"}
                 /\ DlqOfApp(a) = {}
           /\ x.cur = FAIL => x.status \in {"RUNNING", "FAILED"}

C9_Witness ==
    \E a \in AppIds :
        /\ "sendToDlqErrorDetails" \in exec[a].data
        /\ exec[a].status = "FAILED"
        /\ exec[a].dlqSends = 1

\* The ledger entry created for application a is COMPLETED.
LedgerCompleted(a) ==
    ledger[exec[a].input.naturalKey] = [state |-> "COMPLETED", applicationId |-> a]

C11_FailedHasOneRecord ==
    \A a \in AppIds :
        exec[a].status = "FAILED" =>
            /\ exec[a].marked = 0
            /\ ~LedgerCompleted(a)
            /\ Cardinality(DlqOfApp(a)) = 1

\* C11 amended: a FAILED execution never called markCompleted and its ledger
\* entry is never COMPLETED; until the entry of its key expires it is the
\* IN_PROGRESS entry of that application, and the only change it can undergo
\* is to expire; exactly one dead-letter record of the application exists,
\* unless the dead-letter send failed, and then none exists.
C11_FailedNeverCompleted ==
    /\ [](\A a \in AppIds :
            LET x == exec[a]
                k == x.input.naturalKey
            IN x.status = "FAILED" =>
                  /\ x.marked = 0
                  /\ ~LedgerCompleted(a)
                  /\ ledger[k].applicationId = a => ledger[k].state = "IN_PROGRESS"
                  /\ expiries[k] = 0 =>
                        ledger[k] = [state |-> "IN_PROGRESS", applicationId |-> a]
                  /\ Cardinality(DlqOfApp(a)) =
                        IF "sendToDlqErrorDetails" \in x.data THEN 0 ELSE 1)
    /\ [][\A a \in AppIds :
            LET k == exec[a].input.naturalKey
            IN (exec[a].status = "FAILED" /\ ledger[k].applicationId = a)
                  => ledger'[k] \in {ledger[k], NoEntry}]_vars

C11_Witness ==
    \E a \in AppIds :
        LET x == exec[a]
        IN /\ x.status = "FAILED"
           /\ x.failedAt = CLEAN
           /\ x.errorInfo = "DataValidationError"
           /\ x.attempts = CleanMaxAttempts + 1
           /\ ledger[x.input.naturalKey] =
                 [state |-> "IN_PROGRESS", applicationId |-> a]
           /\ Cardinality(DlqOfApp(a)) = 1

\* C12: a delivery answered Admitted is acknowledged only when the execution
\* started for it has ended SUCCEEDED or FAILED; a delivery answered
\* AlreadyInProgress or AlreadyCompleted has no application and no execution,
\* and can be acknowledged at once; the executions started are exactly those
\* of the admitted deliveries that went on to start one.
C12_AckAfterTerminal ==
    /\ \A d \in Deliveries :
          /\ (disp[d] = "acked" /\ dispResult[d] = "Admitted") =>
                exec[dispApp[d]].status \in {"SUCCEEDED", "FAILED"}
          /\ dispResult[d] \in {"AlreadyInProgress", "AlreadyCompleted"} =>
                /\ dispApp[d] = 0
                /\ disp[d] \in {"rejected", "acked"}
          /\ disp[d] = "rejected" => ENABLED Acknowledge(d)
          /\ (disp[d] \in {"admitted", "started"}
                /\ exec[dispApp[d]].status \notin {"SUCCEEDED", "FAILED"})
                => ~ENABLED Acknowledge(d)
    /\ \A a \in AppIds :
          Started(a) <=>
              \E d \in Deliveries :
                  dispApp[d] = a /\ disp[d] \in {"started", "acked"}

C12_Witness ==
    \E d1, d2 \in Deliveries :
        /\ dispResult[d1] = "Admitted"
        /\ disp[d1] = "acked"
        /\ exec[dispApp[d1]].status = "FAILED"
        /\ dispResult[d2] = "AlreadyInProgress"
        /\ disp[d2] = "acked"

LastStage(x) == x.order[Len(x.order)]

\* C14: when an attempt of a stage ends with an error the stage's Retry does
\* not list, the stage's Catch has taken the execution to the failure path
\* with that error recorded; no stage Lambda is invoked after such an error
\* (an invocation follows only a success or a listed error), and a stage that
\* fails with nothing retried before has been invoked exactly once.
C14_UnlistedErrorNotRetried ==
    /\ [](\A a \in AppIds :
            LET x == exec[a]
            IN /\ (x.order # <<>> /\ x.lastError # NoError
                     /\ x.lastError \notin RetryErrorEquals(LastStage(x))) =>
                     /\ x.failedAt = LastStage(x)
                     /\ x.cur \in {DLQ, FAIL}
                     /\ x.errorInfo = x.lastError
               /\ (x.failedAt \in Stages /\ ~x.retried) => x.attempts = 1)
    /\ [][\A a \in AppIds :
            invocations'[a] # invocations[a] =>
                /\ exec[a].cur \in Stages
                /\ \/ exec[a].lastError = NoError
                   \/ exec[a].lastError \in RetryErrorEquals(exec[a].cur)]_vars

C14_Witness ==
    \E a \in AppIds :
        /\ exec[a].status = "FAILED"
        /\ exec[a].failedAt = SCORE
        /\ exec[a].errorInfo = "SchemaMismatchError"
        /\ exec[a].attempts = 1
        /\ invocations[a] = 2

\* C15: an attempt that ended with States.Timeout is not counted as a success
\* of its stage: the stage is not among the completed ones, the execution
\* has not SUCCEEDED, and the stage's Catch has taken it to the failure path
\* (no Retry lists States.Timeout); and the execution does not stay there:
\* it ends FAILED.
C15_TimeoutIsFailedAttempt ==
    /\ [](\A a \in AppIds :
            LET x == exec[a]
            IN x.lastError = "States.Timeout" =>
                  /\ LastStage(x) \notin x.done
                  /\ x.status # "SUCCEEDED"
                  /\ x.failedAt = LastStage(x)
                  /\ x.cur \in {DLQ, FAIL})
    /\ \A a \in AppIds :
          (exec[a].lastError = "States.Timeout") ~> (exec[a].status = "FAILED")

C15_Witness ==
    \E a \in AppIds :
        /\ exec[a].lastError = "States.Timeout"
        /\ exec[a].failedAt = SCORE
        /\ exec[a].done = {CLEAN}
        /\ exec[a].status = "FAILED"

\* C16: in CallScoringService and PersistScoredApplication (IntervalSeconds 5,
\* BackoffRate 2, JitterStrategy FULL) the sleep before the retry that
\* follows the k-th attempt is between 0 and 5 * 2^(k-1) seconds (delay is in
\* half seconds); an execution that is not waiting for a retry does not
\* sleep.
C16_BackoffWithinBound ==
    \A a \in AppIds :
        LET x == exec[a]
            k == x.retryCount
        IN /\ (x.cur \in {SCORE, PERSIST} /\ k >= 1) =>
                 /\ x.attempts = k
                 /\ delay[a] >= 0
                 /\ delay[a] <= 2 * 5 * Pow(2, k - 1)
           /\ k = 0 => delay[a] = 0

C16_Witness ==
    \E a \in AppIds :
        /\ exec[a].cur = SCORE
        /\ exec[a].retryCount = 3
        /\ exec[a].lastError = "ScoringServiceCallFailed"
        /\ delay[a] = 40

\* C17: every started execution eventually ends SUCCEEDED or FAILED, whatever
\* the stage Lambdas and the dead-letter send answer; on the way no Task state
\* is retried more often than its MaxAttempts and the dead-letter send is
\* attempted at most once.
C17_EventuallyTerminal ==
    /\ [](\A a \in AppIds :
            /\ exec[a].retryCount <= RetryMaxAttempts(exec[a].cur)
            /\ exec[a].dlqSends <= 1)
    /\ \A a \in AppIds :
          Started(a) ~> (exec[a].status \in {"SUCCEEDED", "FAILED"})

C17_Witness ==
    \E a \in AppIds :
        /\ exec[a].status = "FAILED"
        /\ invocations[a] =
              (CleanMaxAttempts + 1) + (ScoreMaxAttempts + 1) + (PersistMaxAttempts + 1)
        /\ "sendToDlqErrorDetails" \in exec[a].data

\* The retries of the three stages / their attempts, the first ones included.
SumOfMaxAttempts == CleanMaxAttempts + ScoreMaxAttempts + PersistMaxAttempts
SumOfAttempts == SumOfMaxAttempts + Cardinality(Stages)

\* The retry budgets are per stage: a stage that has been entered and not yet
\* attempted has retry counter 0, the counter never exceeds the stage's
\* MaxAttempts, while a stage is retried its attempts equal its retries, and
\* as long as the stage has used fewer retries than its MaxAttempts a further
\* retry is available, whatever the earlier stages consumed.
BudgetsPerStage(a) ==
    LET x == exec[a]
    IN /\ (x.cur \in Stages /\ (x.order = <<>> \/ LastStage(x) # x.cur)) =>
             x.retryCount = 0
       /\ x.retryCount <= RetryMaxAttempts(x.cur)
       /\ (x.cur \in Stages /\ x.retryCount >= 1) =>
             LastStage(x) = x.cur /\ x.attempts = x.retryCount
       /\ (x.status = "RUNNING" /\ x.cur \in Stages
             /\ x.retryCount < RetryMaxAttempts(x.cur)) =>
             ENABLED (NextWorkflow /\ exec'[a].retryCount = exec[a].retryCount + 1)

\* C18 as stated: the budgets are per stage and the stage invocations of one
\* execution never exceed the sum of the three MaxAttempts.
C18_TotalWithinSumOfMaxAttempts ==
    \A a \in AppIds :
        BudgetsPerStage(a) /\ invocations[a] <= SumOfMaxAttempts

\* C18 amended: the budgets are per stage and the stage invocations of one
\* execution never exceed the sum of the three MaxAttempts plus one first
\* attempt per stage.
C18_TotalWithinSumOfAttempts ==
    \A a \in AppIds :
        BudgetsPerStage(a) /\ invocations[a] <= SumOfAttempts

C18_Witness ==
    \E a \in AppIds :
        /\ exec[a].status = "SUCCEEDED"
        /\ invocations[a] = SumOfAttempts

\* The state and the state data of an execution whose completed stages are
\* done, each completed at its first attempt.
FirstAttemptCur(done) ==
    CASE done = {} -> CLEAN
      [] done = {CLEAN} -> SCORE
      [] done = {CLEAN, SCORE} -> PERSIST
      [] OTHER -> "End"

FirstAttemptData(done) ==
    CASE done = {} -> {"application_id", "raw_application"}
      [] done = {CLEAN} -> {"application_id", "features_for_scoring"}
      [] OTHER -> {"application_id", "features_for_scoring", "risk_score"}

\* C19: as long as no Catch has applied, an execution is where first-attempt
\* successes of its completed stages would have put it, however many attempts
\* were retried on the way: same state, same state data (the result of the
\* successful attempts, no trace of the errors), retry counter 0 and no error
\* when a stage has just completed, no dead-letter send and no dead-letter
\* record.
C19_RetriesInvisible ==
    \A a \in AppIds :
        LET x == exec[a]
        IN (Started(a) /\ x.failedAt = "-") =>
              /\ x.cur = FirstAttemptCur(x.done)
              /\ x.data = FirstAttemptData(x.done)
              /\ x.errorInfo = NoError
              /\ (x.order = <<>> \/ LastStage(x) \in x.done) =>
                    x.retryCount = 0 /\ x.lastError = NoError
              /\ x.dlqSends = 0
              /\ DlqOfApp(a) = {}

C19_Witness ==
    \E a \in AppIds :
        /\ exec[a].retried
        /\ exec[a].done = {CLEAN, SCORE}
        /\ exec[a].cur = PERSIST
        /\ LastStage(exec[a]) = SCORE
        /\ exec[a].attempts = ScoreMaxAttempts
        /\ exec[a].retryCount = 0

\* C20: the input of PersistScoredApplication holds the application_id and
\* the engineered features that the successful CLEAN attempt produced and the
\* risk score that the successful SCORE attempt produced, in the same
\* execution; the step that completes SCORE adds risk_score to the state data
\* and changes nothing else of it, nor the execution's input.
C20_PersistReceivesFeaturesAndScore ==
    /\ [](\A a \in AppIds :
            (exec[a].cur = PERSIST \/ Attempted(exec[a], PERSIST)) =>
                /\ {CLEAN, SCORE} \subseteq exec[a].done
                /\ exec[a].failedAt = "-" =>
                      PersistInput(exec[a]) =
                          {"application_id", "features_for_scoring", "risk_score"}
                /\ {"application_id", "features_for_scoring", "risk_score"}
                      \subseteq exec[a].data)
    /\ [][\A a \in AppIds :
            (SCORE \in exec'[a].done /\ SCORE \notin exec[a].done) =>
                /\ exec'[a].data = exec[a].data \cup {"risk_score"}
                /\ "risk_score" \notin exec[a].data
                /\ exec'[a].input = exec[a].input
                /\ exec'[a].cur = PERSIST]_vars

C20_Witness ==
    \E a \in AppIds :
        /\ Running(a, PERSIST)
        /\ exec[a].order = <<CLEAN, SCORE>>
        /\ PersistInput(exec[a]) =
              {"application_id", "features_for_scoring", "risk_score"}

\* C21: every dead-letter record carries the input its execution was started
\* with, whatever stages ran before the failure, and the error that the
\* failing stage's Catch recorded; the execution's input never changes, and
\* the records already written are never changed or removed.
C21_DeadLetterCarriesInputAndCause ==
    /\ [](\A i \in 1..Len(dlq) :
            LET x == exec[dlq[i].input.application_id]
            IN /\ dlq[i].input = x.input
               /\ dlq[i].input.naturalKey \in Keys
               /\ x.failedAt \in Stages
               /\ dlq[i].errorInfo = x.errorInfo
               /\ dlq[i].errorInfo = x.lastError
               /\ dlq[i].errorInfo # NoError)
    /\ [][/\ IsPrefix(dlq, dlq')
          /\ \A a \in AppIds : Started(a) => exec'[a].input = exec[a].input]_vars

C21_Witness ==
    \E i \in 1..Len(dlq) :
        LET x == exec[dlq[i].input.application_id]
        IN /\ x.status = "FAILED"
           /\ x.failedAt = PERSIST
           /\ x.done = {CLEAN, SCORE}
           /\ "raw_application" \notin x.data
           /\ dlq[i].input = x.input
           /\ dlq[i].errorInfo = "DatabaseWriteError"

\* C22: a call of beginOrReject answers Admitted exactly when the key has no
\* unexpired entry, and then creates the IN_PROGRESS entry of a new
\* application; it answers AlreadyInProgress exactly when the key's entry is
\* IN_PROGRESS and AlreadyCompleted exactly when it is COMPLETED, and then
\* leaves the ledger alone. An entry changes only from IN_PROGRESS to
\* COMPLETED (same application) or by expiring.
C22_BeginOrRejectAnswers ==
    [][/\ \A d \in Deliveries :
            (disp[d] = "queued" /\ disp'[d] # "queued") =>
                LET k == d[1]
                    r == dispResult'[d]
                IN /\ r \in {"Admitted", "AlreadyInProgress", "AlreadyCompleted"}
                   /\ r = "Admitted" <=> ledger[k].state = "NONE"
                   /\ r = "AlreadyInProgress" <=> ledger[k].state = "IN_PROGRESS"
                   /\ r = "AlreadyCompleted" <=> ledger[k].state = "COMPLETED"
                   /\ r = "Admitted" =>
                         /\ ledger'[k] = [state |-> "IN_PROGRESS",
                                          applicationId |-> dispApp'[d]]
                         /\ dispApp'[d] = nextId
                         /\ ~Started(dispApp'[d])
                   /\ r # "Admitted" => ledger' = ledger /\ dispApp'[d] = 0
       /\ \A k \in Keys :
            /\ ledger[k].state = "IN_PROGRESS" =>
                  ledger'[k] \in {ledger[k], NoEntry,
                                  [ledger[k] EXCEPT !.state = "COMPLETED"]}
            /\ ledger[k].state = "COMPLETED" => ledger'[k] \in {ledger[k], NoEntry}
            /\ (ledger'[k] = NoEntry /\ ledger[k] # NoEntry) =>
                  expiries'[k] = expiries[k] + 1]_vars

C22_Witness ==
    \E d1, d2 \in Deliveries :
        /\ d1[1] = d2[1]
        /\ dispResult[d1] = "Admitted"
        /\ dispResult[d2] = "AlreadyCompleted"
        /\ ledger[d1[1]] = [state |-> "COMPLETED", applicationId |-> dispApp[d1]]
        /\ expiries[d1[1]] = 0

\* The executions of natural key k that are running.
RunningOf(k) == {a \in AppsOf(k) : exec[a].status = "RUNNING"}

\* C23: two executions of one natural key run at the same time only after an
\* entry of the key has expired; as long as none has, at most one delivery of
\* the key is admitted and at most one execution of it exists. Each expiry
\* allows one more admission.
C23_DuplicateOnlyAfterExpiry ==
    \A k \in Keys :
        /\ Cardinality(RunningOf(k)) >= 2 => expiries[k] >= 1
        /\ expiries[k] = 0 =>
              Cardinality(AdmittedOf(k)) <= 1 /\ Cardinality(AppsOf(k)) <= 1
        /\ Cardinality(AdmittedOf(k)) <= expiries[k] + 1

\* The documented race: the entry expired while its execution was running,
\* a redelivery was admitted, and both executions are running.
C23_Witness ==
    \E d1, d2 \in Deliveries :
        /\ d1[1] = d2[1]
        /\ d1 # d2
        /\ dispResult[d1] = "Admitted"
        /\ dispResult[d2] = "Admitted"
        /\ expiries[d1[1]] = 1
        /\ exec[dispApp[d1]].status = "RUNNING"
        /\ exec[dispApp[d2]].status = "RUNNING"
        /\ ledger[d1[1]].applicationId = dispApp[d2]

\* The steps execution record x can take, computed from x alone.
StepsOf(x) ==
    CASE x.status # "RUNNING" -> {}
      [] x.cur = CLEAN ->
           {OnSuccess(Invoked(x, CLEAN), CLEAN,
                      {"application_id", "features_for_scoring"})}
           \cup {OnError(Invoked(x, CLEAN), CLEAN, err) : err \in ErrorNames}
      [] x.cur = SCORE ->
           {OnSuccess(Invoked(x, SCORE), SCORE, ScoreOutput(x.data))}
           \cup {OnError(Invoked(x, SCORE), SCORE, err) : err \in ErrorNames}
      [] x.cur = PERSIST ->
           {[OnSuccess(Invoked(x, PERSIST), PERSIST, x.data) EXCEPT !.marked = @ + 1]}
           \cup {OnError(Invoked(x, PERSIST), PERSIST, err) : err \in ErrorNames}
      [] x.cur = DLQ ->
           {[x EXCEPT !.cur = NextState(DLQ), !.dlqSends = @ + 1,
                      !.data = @ \cup {"sqsSendMessageResult"}],
            OnError([x EXCEPT !.dlqSends = @ + 1], DLQ, "SQS.SdkClientException")}
      [] x.cur = FAIL -> {[x EXCEPT !.status = "FAILED"]}
      [] OTHER -> {}

\* C24: a step changes the record of at most one execution, and with it at
\* most that application's row and dead-letter records; the record a started
\* execution moves to is one of the steps its own record allows, and every
\* step its own record allows can be taken, whatever the other executions
\* are doing: what an execution can do and how it can end does not depend on
\* the interleaving.
C24_ExecutionsIndependent ==
    /\ [](\A a \in AppIds : \A y \in StepsOf(exec[a]) :
            ENABLED (Next /\ exec'[a] = y))
    /\ [][\A a \in AppIds :
            (Started(a) /\ exec'[a] # exec[a]) =>
                /\ exec'[a] \in StepsOf(exec[a])
                /\ \A b \in AppIds \ {a} :
                      /\ exec'[b] = exec[b]
                      /\ store'[b] = store[b]
                /\ \A i \in 1..Len(dlq') :
                      i > Len(dlq) => dlq'[i].input.application_id = a]_vars

\* Out-of-order completion: the execution started second has SUCCEEDED while
\* the one started first is still retrying CallScoringService.
C24_Witness ==
    \E a, b \in AppIds :
        /\ a < b
        /\ exec[b].status = "SUCCEEDED"
        /\ exec[a].status = "RUNNING"
        /\ exec[a].cur = SCORE
        /\ exec[a].retryCount = 2
        /\ store[b] = 1
        /\ store[a] = 0

\* C25 as stated: whenever the table is not loading (and no error is shown
\* and no load is about to start), what it shows was set by the chain of the
\* most recent load, which has finished and was started for the filters
\* submitted last.
C25_ShownIsLatestLoad ==
    (latest > 0 /\ ~table.isLoading /\ ~table.error /\ ~dashboard.effectPending) =>
        /\ table.shownOf = latest
        /\ chains[latest].status = "finished"
        /\ chains[latest].filters = dashboard.filters
        /\ table.allFetchedApps = chains[latest].acc

\* The pages start where the records of the pages before them end: together
\* they are the records 0 .. SumN(pages) - 1, each once.
Contiguous(pages) ==
    \A i \in 1..Len(pages) : pages[i].off = SumN(SubSeq(pages, 1, i - 1))

\* C26: in every fetch chain the pages fetched so far are contiguous from
\* offset 0 and the offset of the request in flight is the number of records
\* accumulated; the list a finished chain published is the list of its pages
\* in request order, and the count it reported is the number of its records.
C26_OffsetsContiguous ==
    \A c \in LoadIds :
        LET ch == chains[c]
        IN /\ Contiguous(ch.acc)
           /\ ch.status = "inflight" =>
                 /\ ch.offset = SumN(ch.acc)
                 /\ Len(ch.acc) = ch.requests - 1
                 /\ \A i \in 1..Len(ch.acc) : ch.acc[i].n = apiPageLimit
           /\ ch.status = "finished" =>
                 /\ ch.count = SumN(ch.acc)
                 /\ Len(ch.acc) \in {ch.requests - 1, ch.requests}
                 /\ table.shownOf = c => table.allFetchedApps = ch.acc

C26_Witness ==
    \E c \in LoadIds :
        /\ chains[c].status = "finished"
        /\ chains[c].acc = <<[off |-> 0, n |-> apiPageLimit],
                             [off |-> apiPageLimit, n |-> apiPageLimit],
                             [off |-> 2 * apiPageLimit, n |-> 500]>>
        /\ table.allFetchedApps = chains[c].acc
        /\ table.shownOf = c

\* C27: a fetch chain issues a bounded number of requests (with a total count
\* from the first page, only while the offset is below it) and calls
\* onDataLoaded at most once; the step that ends it sets isLoading to false,
\* sets the page count and reports the number of accumulated records; and
\* every chain whose requests are answered does end.
C27_ChainTerminates ==
    /\ [](\A c \in LoadIds :
            LET ch == chains[c]
            IN /\ ch.notified <= 1
               /\ ch.requests <= MaxRequests
               /\ ch.status = "inflight" =>
                     /\ ch.notified = 0
                     /\ ch.total # NoTotal => ch.offset < ch.total
               /\ ch.status = "finished" =>
                     ch.notified = 1 /\ ch.count = SumN(ch.acc))
    /\ [][\A c \in LoadIds :
            (chains[c].status = "inflight" /\ chains'[c].status # "inflight") =>
                /\ chains'[c].status = "finished"
                /\ ~table'.isLoading
                /\ table'.totalPages = TotalPagesOf(SumN(chains'[c].acc))
                /\ dashboard'.totalAppsInTable = SumN(chains'[c].acc)]_vars
    /\ \A c \in LoadIds :
          (chains[c].status = "inflight") ~> (chains[c].status = "finished")

\* A chain ended by the total count of the first page: two full pages of a
\* total of 2000.
C27_Witness ==
    \E c \in LoadIds :
        /\ chains[c].status = "finished"
        /\ chains[c].total = 2 * apiPageLimit
        /\ chains[c].acc = <<[off |-> 0, n |-> apiPageLimit],
                             [off |-> apiPageLimit, n |-> apiPageLimit]>>
        /\ chains[c].notified = 1
        /\ ~table.isLoading
        /\ dashboard.totalAppsInTable = 2 * apiPageLimit

\* The record lists and paginated responses that carry a parsed result.
CarriesResult(o) == o.transport = "ok" /\ o.field /\ o.json

\* C28: queryRecordList and queryPaginatedList always resolve, with the
\* parsed result when the response carries one and with the empty default
\* otherwise; no fetch chain of the table reaches its catch branch, the
\* table and the graphs show an error only without an API key, and a chain
\* ended by a failed request has published what it had without an error.
C28_RequestsNeverReject ==
    /\ \A o \in AxiosOutcomes :
          queryPaginatedList(o) =
              [state |-> "resolved",
               value |-> IF CarriesResult(o) THEN o.parsed ELSE DefaultPaginated]
    /\ \A o \in RecordOutcomes :
          /\ queryRecordList(o).state = "resolved"
          /\ queryRecordList(o).value = IF CarriesResult(o) THEN o.items ELSE <<>>
    /\ \A c \in LoadIds :
          /\ chains[c].status # "failed"
          /\ chains[c].defaulted =>
                chains[c].status = "finished" /\ chains[c].notified = 1
    /\ table.error => ~dashboard.apiKey
    /\ \A g \in Graphs :
          /\ graphs[g].status # "rejected"
          /\ graphs[g].error => ~dashboard.apiKey

\* A second request failed after a full first page: the first page is shown
\* without an error, and a graph has applied a result.
C28_Witness ==
    /\ \E c \in LoadIds :
          /\ chains[c].defaulted
          /\ chains[c].acc = <<[off |-> 0, n |-> apiPageLimit]>>
          /\ table.shownOf = c
          /\ table.allFetchedApps = chains[c].acc
          /\ ~table.error /\ ~table.isLoading
    /\ graphs["count"].status = "applied"

\* C29: while the request of a graph is in flight the graph's isLoading is
\* true, and so the graph does not render its "no data available" text.
C29_LoadingWhileInFlight ==
    \A g \in Graphs :
        graphs[g].status = "inflight" =>
            graphs[g].isLoading /\ GraphView(g) # "nodata"

\* C30: with at least two pages and the current page among them, a click on
\* the pagination controls calls onPageChange only with a page of
\* 1..totalPages other than the page it happened on; Previous on page 1,
\* Next on the last page and the current page's own button call nothing.
C30_PageChangeInRange ==
    /\ pager.called # 0 =>
          /\ pager.called \in 1..pager.totalPages
          /\ pager.called # pager.from
          /\ pager.currentPage = pager.called
    /\ (pager.clicked = "previous" /\ pager.from = 1) => pager.called = 0
    /\ (pager.clicked = "next" /\ pager.from = pager.totalPages) =>
          pager.called = 0
    /\ (pager.clicked = "previous" /\ pager.from > 1) =>
          pager.called = pager.from - 1
    /\ (pager.clicked = "next" /\ pager.from < pager.totalPages) =>
          pager.called = pager.from + 1
    /\ pager.clicked = "first" => pager.called = 1
    /\ pager.clicked = "last" => pager.called = pager.totalPages
    /\ pager.currentPage \in 1..pager.totalPages

\* On page 4 of 8 the window is 2..6, and the button of the last page was
\* clicked.
C30_Witness ==
    /\ pager.totalPages = MaxPages
    /\ pager.clicked = "last"
    /\ pager.from = 4
    /\ pager.called = MaxPages
    /\ pager.currentPage = MaxPages

\* C31: with at least two pages and the current page among them, the window
\* of numbered buttons lies within 1..totalPages, contains the current page
\* and has at most maxPagesToShow pages, exactly that many when there are
\* more pages than that.
C31_WindowAroundCurrentPage ==
    LET startPage == StartPage(pager.currentPage, pager.totalPages)
        endPage == EndPage(pager.currentPage, pager.totalPages)
    IN /\ 1 <= startPage
       /\ startPage <= pager.currentPage
       /\ pager.currentPage <= endPage
       /\ endPage <= pager.totalPages
       /\ Cardinality(PageNumbers(pager.currentPage, pager.totalPages))
             = endPage - startPage + 1
       /\ endPage - startPage + 1 <= maxPagesToShow
       /\ pager.totalPages > maxPagesToShow =>
             endPage - startPage + 1 = maxPagesToShow

\* Next has led to the last of 8 pages: the window, cut short by the last
\* page, was moved back to 4..8.
C31_Witness ==
    /\ pager.totalPages = MaxPages
    /\ pager.clicked = "next"
    /\ pager.currentPage = MaxPages
    /\ StartPage(pager.currentPage, pager.totalPages) = MaxPages - maxPagesToShow + 1
    /\ EndPage(pager.currentPage, pager.totalPages) = MaxPages

\* C32: with at most maxPagesToShow pages every page of 1..totalPages has a
\* button and no ellipsis is rendered.
C32_EveryPageHasButton ==
    pager.totalPages <= maxPagesToShow =>
        /\ PageButtons(pager.currentPage, pager.totalPages) = 1..pager.totalPages
        /\ ~LeadingEllipsis(pager.currentPage, pager.totalPages)
        /\ ~TrailingEllipsis(pager.currentPage, pager.totalPages)

\* C33: in the table, totalPages is the number of fetched records divided by
\* itemsPerPage and rounded up; every new load sets currentPage to 1; and
\* once the slice effect has run, displayedApps holds the records of the
\* fetched list from index (currentPage - 1) * itemsPerPage on, up to
\* itemsPerPage of them.
C33_PageSliceOfFetched ==
    /\ [](LET length == SumN(table.allFetchedApps)
              first == (pager.currentPage - 1) * itemsPerPage
              shown == pager.displayedApps
          IN /\ table.totalPages * itemsPerPage >= length
             /\ table.totalPages * itemsPerPage < length + itemsPerPage
             /\ pager.totalPages = table.totalPages
             /\ shown.n <= itemsPerPage
             /\ ~pager.slicePending =>
                   IF first < length
                   THEN /\ shown.of = table.allFetchedApps
                        /\ shown.start = first
                        /\ shown.n = IF length - first < itemsPerPage
                                     THEN length - first ELSE itemsPerPage
                   ELSE shown = EmptySlice)
    /\ [][latest' # latest => pager'.currentPage = 1]_vars

\* After the last load a click has led to another page, and the slice effect
\* has put a full page of that load's records on display.
C33_Witness ==
    /\ latest = MaxLoads
    /\ pager.clicked # "none"
    /\ pager.currentPage > 1
    /\ ~pager.slicePending
    /\ pager.displayedApps.of = table.allFetchedApps
    /\ pager.displayedApps.start = (pager.currentPage - 1) * itemsPerPage
    /\ pager.displayedApps.n = itemsPerPage

\* C34: without an API key no fetch chain of the table and no graph issues
\* a request; a load of the table ends with its error set, isLoading false,
\* no records and a count of 0 reported through onDataLoaded, and a graph
\* that has run its effect shows its error with isLoading false and no data.
C34_NoRequestWithoutApiKey ==
    ~dashboard.apiKey =>
        /\ \A c \in LoadIds :
              /\ chains[c].requests = 0
              /\ chains[c].status \in {"none", "unauthenticated"}
              /\ c <= latest =>
                    /\ chains[c].status = "unauthenticated"
                    /\ chains[c].notified = 1
                    /\ chains[c].count = 0
        /\ latest > 0 =>
              /\ table.error
              /\ ~table.isLoading
              /\ table.allFetchedApps = <<>>
              /\ table.totalPages = 0
        /\ dashboard.totalAppsInTable = 0
        /\ \A g \in Graphs :
              /\ graphs[g].status \in {"mounted", "unauthenticated"}
              /\ graphs[g].status = "unauthenticated" =>
                    /\ graphs[g].error
                    /\ ~graphs[g].isLoading
                    /\ graphs[g].chartData = <<>>
                    /\ GraphView(g) = "error"

\* Without an API key both graphs have run their effect and the table has
\* been loaded again after a submission of the filters.
C34_Witness ==
    /\ ~dashboard.apiKey
    /\ latest = MaxLoads
    /\ dashboard.filters = "HIGH"
    /\ table.error
    /\ \A g \in Graphs : graphs[g].status = "unauthenticated"

\* The order of the three levels.
LevelRank(level) == CASE level = "LOW" -> 1 [] level = "MEDIUM" -> 2 [] level = "HIGH" -> 3

\* C35: the risk_level of every stored row is HIGH exactly when its
\* risk_score is at least 0.75, MEDIUM exactly when it is at least 0.35 and
\* below 0.75, and LOW exactly when it is below 0.35; and of two rows the
\* one with the greater score has no lower level.
C35_RiskLevelOfScore ==
    /\ \A a \in AppIds :
          scored[a].present =>
              /\ scored[a].risk_level \in {"LOW", "MEDIUM", "HIGH"}
              /\ scored[a].risk_level = "HIGH"
                    <=> 100 * scored[a].risk_score >= 75 * ScoreScale
              /\ scored[a].risk_level = "MEDIUM"
                    <=> /\ 100 * scored[a].risk_score >= 35 * ScoreScale
                        /\ 100 * scored[a].risk_score < 75 * ScoreScale
              /\ scored[a].risk_level = "LOW"
                    <=> 100 * scored[a].risk_score < 35 * ScoreScale
    /\ \A a, b \in AppIds :
          (scored[a].present /\ scored[b].present
             /\ scored[a].risk_score <= scored[b].risk_score) =>
              LevelRank(scored[a].risk_level) <= LevelRank(scored[b].risk_level)

\* Two rows on the two sides of a threshold: 0.75 is HIGH and 0.749999 is
\* MEDIUM.
C35_Witness ==
    \E a, b \in AppIds :
        /\ scored[a].present /\ scored[b].present
        /\ scored[a].risk_score = HighFrom /\ scored[a].risk_level = "HIGH"
        /\ scored[b].risk_score = HighFrom - 1 /\ scored[b].risk_level = "MEDIUM"

====
